---- MODULE Spec2Model ----
(***************************************************************************)
(* The effect-block validator of ck3-tiger (src/src/effect.rs).            *)
(*                                                                         *)
(* validate_effect walks one parsed script block: Phase 1 consumes the     *)
(* meta-fields whose legality depends on the ListType, Phase 2 classifies  *)
(* every remaining key (registry effect, iterator list, macro, dotted      *)
(* scope chain) and recurses into iterator and chain bodies, Phase 3 calls *)
(* warn_remaining.  The ScopeContext, the Validator, the Token methods and *)
(* the scope/effect tables live in other crates' modules (crate::context,  *)
(* crate::block, crate::token, crate::scopes, crate::tables); they are     *)
(* modelled from the specification text and from how effect.rs uses them.  *)
(*                                                                         *)
(* A Token is a sequence of words; the separators "_", "." and ":" are     *)
(* words of their own, so that split_once and split are real operations.   *)
(* The contents of a nested block are read only by the call that validates *)
(* that block, so they are drawn when validate_effect descends into it.    *)
(***************************************************************************)
EXTENDS Integers, Sequences, FiniteSets, TLC

VARIABLES
    pc,         \* "enter": validate_effect is being called; "phase1": the call
                \* has its block and is in Phase 1; "loop"; "done"
    call,       \* the arguments of the call that is entered or in Phase 1
    stack,      \* the validate_effect activations that are in the Phase 2 loop, each
                \* with the subject its block had before the key last taken
    sc,         \* the ScopeContext shared by the whole call tree
    sc_entry,   \* the ScopeContext as it was passed to the outermost call
    budget,     \* how many more entries the not yet visited blocks may hold
    last        \* what the last step did: the key it handled and what it emitted

vars == <<pc, call, stack, sc, sc_entry, budget, last>>

----------------------------------------------------------------------------
(* Bounds of the input *)

\* the largest number of entries of one block
MaxKeys == 2

\* the largest number of entries of the input tree (all visited blocks together)
MaxEntries == 3

----------------------------------------------------------------------------
(* ListType, effect.rs:16-35 *)

ListType == {"None", "Any", "Every", "Ordered", "Random"}

\* impl Display for ListType
ListTypeToString(lt) ==
    CASE lt = "None" -> ""
      [] lt = "Any" -> "any"
      [] lt = "Every" -> "every"
      [] lt = "Ordered" -> "ordered"
      [] lt = "Random" -> "random"

----------------------------------------------------------------------------
(* Tokens *)

\* Token::is
is(tok, word) == tok = <<word>>

\* position of the first separator, 0 when there is none
FirstAt(tok, sep) ==
    IF \E i \in 1..Len(tok) : tok[i] = sep
    THEN CHOOSE i \in 1..Len(tok) :
            tok[i] = sep /\ \A j \in 1..(i - 1) : tok[j] # sep
    ELSE 0

\* Token::split_once: the parts before and after the first separator
split_once(tok, sep) ==
    LET i == FirstAt(tok, sep)
    IN  IF i = 0
        THEN [some |-> FALSE, l |-> <<>>, r |-> <<>>]
        ELSE [some |-> TRUE, l |-> SubSeq(tok, 1, i - 1),
              r |-> SubSeq(tok, i + 1, Len(tok))]

\* Token::split: every part between separators, in order
RECURSIVE split(_, _)
split(tok, sep) ==
    LET i == FirstAt(tok, sep)
    IN  IF i = 0
        THEN <<tok>>
        ELSE <<SubSeq(tok, 1, i - 1)>> \o split(SubSeq(tok, i + 1, Len(tok)), sep)

\* the decimal literals of the inputs and their values
Numerals == [w \in {"0", "5", "-3"} |->
                CASE w = "0" -> 0 [] w = "5" -> 5 [] w = "-3" -> 0 - 3]

\* token.as_str().parse::<i32>()
parse_i32(tok) ==
    IF Len(tok) = 1 /\ tok[1] \in DOMAIN Numerals
    THEN [ok |-> TRUE, n |-> Numerals[tok[1]]]
    ELSE [ok |-> FALSE, n |-> 0]

----------------------------------------------------------------------------
(* Scopes *)

Categories == {"Character", "LandedTitle", "Culture"}

\* Scopes::None, the "unconstrained" value
ScopesNone == {"None"}

ScopesAll == Categories

NoMatch == [some |-> FALSE, ins |-> {}, out |-> {}, effect |-> "", arg |-> {}]

Match(ins, out) == [some |-> TRUE, ins |-> ins, out |-> out, effect |-> "", arg |-> {}]

EffectMatch(ins, effect, arg) ==
    [some |-> TRUE, ins |-> ins, out |-> {}, effect |-> effect, arg |-> arg]

\* tables::effects::scope_effect: required input scopes and argument contract
scope_effect(key) ==
    CASE key = <<"add", "_", "gold">> -> EffectMatch({"Character"}, "ScriptValue", {})
      [] key = <<"release">> -> EffectMatch({"Character"}, "Yes", {})
      [] key = <<"set", "_", "immortal">> -> EffectMatch({"Character"}, "Bool", {})
      [] key = <<"add", "_", "level">> -> EffectMatch({"Character"}, "Integer", {})
      [] key = <<"add", "_", "truce">> -> EffectMatch({"Character"}, "NonNegativeValue", {})
      [] key = <<"set", "_", "holder">> -> EffectMatch({"LandedTitle"}, "Scope", {"Character"})
      [] key = <<"add", "_", "trait">> -> EffectMatch({"Character"}, "Item", {})
      [] key = <<"trigger", "_", "event">> -> EffectMatch(ScopesNone, "Unchecked", {})
      [] OTHER -> NoMatch

\* scopes::scope_iterator: input scopes and output scope of a list iterator
scope_iterator(name) ==
    CASE name = <<"courtier">> -> Match({"Character"}, {"Character"})
      [] name = <<"held", "_", "title">> -> Match({"Character"}, {"LandedTitle"})
      [] OTHER -> NoMatch

\* scopes::scope_prefix: input scopes and output scope of a `prefix:` reference
scope_prefix(prefix) ==
    CASE prefix = <<"title">> -> Match(ScopesNone, {"LandedTitle"})
      [] prefix = <<"cp">> -> Match({"Character"}, {"Character"})
      [] OTHER -> NoMatch

\* scopes::scope_to_scope: input scopes and output scope of a scope transition
scope_to_scope(name) ==
    CASE name = <<"liege">> -> Match({"Character"}, {"Character"})
      [] name = <<"culture">> -> Match({"Character", "LandedTitle"}, {"Culture"})
      [] name = <<"holder">> -> Match({"LandedTitle"}, {"Character"})
      [] name = <<"dummy", "_", "male">> -> Match(ScopesNone, {"Character"})
      [] OTHER -> NoMatch

\* the scripted effects and event-local effects of the loaded mod
\* (data.item_exists(Item::ScriptedEffect, ..) || data.events.effect_exists(..)):
\* the names are the mod author's, some shadow other constructs
MacroNames ==
    { <<"my", "_", "effect">>, <<"any", "_", "fix">>,
      <<"add", "_", "gold">>, <<"ordered", "_", "courtier">> }

----------------------------------------------------------------------------
(* Diagnostics and the calls that leave this file *)

Ev(op, at, msg, scopes) == [op |-> op, at |-> at, msg |-> msg, scopes |-> scopes]

\* errors::warn
warn(st, at, msg) == [st EXCEPT !.ev = @ \o <<Ev("warn", at, msg, {})>>]

\* errors::error
error(st, at, msg) == [st EXCEPT !.ev = @ \o <<Ev("error", at, msg, {})>>]

\* a call of a validator that is no part of this file (validate_normal_trigger,
\* validate_target, ScriptValue::validate_bv, verify_exists, ...)
extern(st, at, name) == [st EXCEPT !.ev = @ \o <<Ev("call", at, name, {})>>]

----------------------------------------------------------------------------
(* ScopeContext: this, root, and the stack of frames saved by open_* *)

\* ScopeContext::expect: narrow the current subject, or warn and leave it
sc_expect(st, required, at) ==
    LET e == Ev("expect", at, "", required)
        inter == st.sc.this \cap required
    IN  IF required = ScopesNone
        THEN [st EXCEPT !.ev = @ \o <<e>>]
        ELSE IF inter = {}
        THEN [st EXCEPT !.ev = @ \o <<e, Ev("warn", at, "wrong scope type", required)>>]
        ELSE [st EXCEPT !.sc.this = inter, !.ev = @ \o <<e>>]

\* ScopeContext::replace
sc_replace(st, new, at) ==
    [st EXCEPT !.sc.this = new, !.ev = @ \o <<Ev("replace", at, "", new)>>]

\* ScopeContext::replace_root
sc_replace_root(st) ==
    [st EXCEPT !.sc.this = st.sc.root,
               !.ev = @ \o <<Ev("replace_root", <<>>, "", st.sc.root)>>]

\* ScopeContext::replace_this
sc_replace_this(st) ==
    [st EXCEPT !.ev = @ \o <<Ev("replace_this", <<>>, "", st.sc.this)>>]

\* the frames opened by open_scope, innermost last
ScopeFrames(frames) == SelectSeq(frames, LAMBDA f : ~f.builder)

\* ScopeContext::replace_prev: the subject the innermost open_scope saved
sc_replace_prev(st, at) ==
    LET sf == ScopeFrames(st.sc.frames)
        e == Ev("replace_prev", at, "", {})
    IN  IF sf = <<>>
        THEN [st EXCEPT !.ev = @ \o <<e, Ev("warn", at, "no previous scope", {})>>]
        ELSE [st EXCEPT !.sc.this = sf[Len(sf)].this, !.ev = @ \o <<e>>]

\* ScopeContext::open_scope
sc_open_scope(st, new, at) ==
    [st EXCEPT !.sc.frames = Append(@, [this |-> st.sc.this, builder |-> FALSE]),
               !.sc.this = new,
               !.ev = @ \o <<Ev("open_scope", at, "", new)>>]

\* ScopeContext::open_builder
sc_open_builder(st) ==
    [st EXCEPT !.sc.frames = Append(@, [this |-> st.sc.this, builder |-> TRUE]),
               !.ev = @ \o <<Ev("open_builder", <<>>, "", {})>>]

\* ScopeContext::close: restore the subject the matching open saved; a close with
\* no open frame is recorded in `underflow`
sc_close(st) ==
    LET fr == st.sc.frames
        e == Ev("close", <<>>, "", {})
    IN  IF fr = <<>>
        THEN [st EXCEPT !.sc.underflow = TRUE, !.ev = @ \o <<e>>]
        ELSE [st EXCEPT !.sc.this = fr[Len(fr)].this,
                        !.sc.frames = SubSeq(fr, 1, Len(fr) - 1),
                        !.ev = @ \o <<e>>]

----------------------------------------------------------------------------
(* Blocks and the Validator *)

\* one `key = value` of a block: the value is a scalar Token or a nested Block
Value(key, tok) == [key |-> key, isBlock |-> FALSE, tok |-> tok]

Nested(key) == [key |-> key, isBlock |-> TRUE, tok |-> <<>>]

NoEntry == [key |-> <<>>, isBlock |-> FALSE, tok |-> <<>>]

\* the entries of a block that carry the given key, in original order
Entries(block, name) == SelectSeq(block, LAMBDA e : e.key = name)

\* Block::get_key: is there an entry with this key
get_key(block, name) == Entries(block, name) # <<>>

\* Validator::field: the field's value, whatever its shape
field(block, name) ==
    LET es == Entries(block, name)
    IN  IF es = <<>> THEN [some |-> FALSE, e |-> NoEntry]
        ELSE [some |-> TRUE, e |-> es[Len(es)]]

\* Validator::field_value: Option<&Token>, the field's value when it is a scalar
field_value(block, name) ==
    LET es == SelectSeq(Entries(block, name), LAMBDA e : ~e.isBlock)
    IN  IF es = <<>> THEN [some |-> FALSE, e |-> NoEntry]
        ELSE [some |-> TRUE, e |-> es[Len(es)]]

\* Validator::field_block: Option<&Block>, the field's value when it is a block
field_block(block, name) ==
    LET es == SelectSeq(Entries(block, name), LAMBDA e : e.isBlock)
    IN  IF es = <<>> THEN [some |-> FALSE, e |-> NoEntry]
        ELSE [some |-> TRUE, e |-> es[Len(es)]]

\* Validator::field_validated_blocks: every block-valued occurrence of the field;
\* the closure runs once for each
field_validated_blocks(block, name) ==
    SelectSeq(Entries(block, name), LAMBDA e : e.isBlock)

\* the caller name "else_if"
ELSE_IF == <<"else", "_", "if">>

CUSTOM == <<"custom">>
LIMIT == <<"limit">>
ALTERNATIVE_LIMIT == <<"alternative", "_", "limit">>
ORDER_BY == <<"order", "_", "by">>
POSITION == <<"position">>
MIN == <<"min">>
MAX == <<"max">>
CHECK_RANGE_BOUNDS == <<"check", "_", "range", "_", "bounds">>
WEIGHT == <<"weight">>

\* the fields Phase 1 asks the Validator for
MetaFields ==
    {CUSTOM, LIMIT, ALTERNATIVE_LIMIT, ORDER_BY, POSITION, MIN, MAX,
     CHECK_RANGE_BOUNDS, WEIGHT}

\* Validator::unknown_keys: the entries no accessor has consumed, in original order
unknown_keys(block) == SelectSeq(block, LAMBDA e : e.key \notin MetaFields)

\* Validator::warn_remaining: one diagnostic for each entry that is still unclaimed
RECURSIVE warn_remaining(_, _)
warn_remaining(st, unclaimed) ==
    IF unclaimed = <<>> THEN st
    ELSE warn_remaining(warn(st, Head(unclaimed).key, "unknown field"), Tail(unclaimed))

\* BlockOrValue::expect_value: the scalar, or an error when the value is a block
expect_value(st, e) ==
    IF e.isBlock THEN error(st, e.key, "expected value, found block") ELSE st

\* BlockOrValue::expect_block: the block, or an error when the value is a scalar
expect_block(st, e) ==
    IF e.isBlock THEN st ELSE error(st, e.key, "expected block, found value")

----------------------------------------------------------------------------
(* Phase 1 of validate_effect, effect.rs:56-180.  a: the arguments of the call, *)
(* st: the ScopeContext, the events so far and the tooltipped flag.             *)
(* The messages are the code's, with ' for the backquote.                      *)

\* effect.rs:57-67
check_custom(st, a) ==
    IF get_key(a.block, CUSTOM)
    THEN LET s1 == extern(st, CUSTOM, "field_value_item")
             s2 == IF a.list_type = "None"
                   THEN warn(s1, CUSTOM, "'custom' can only be used in lists")
                   ELSE s1
         IN  [s2 EXCEPT !.tooltipped = FALSE]
    ELSE st

\* check_limit that knows only the callers its message names, if and else_if
check_limit_no_else(st, a) ==
    IF field_block(a.block, LIMIT).some
    THEN IF is(a.caller, "if") \/ a.caller = ELSE_IF \/ a.list_type # "None"
         THEN extern(st, LIMIT, IF st.tooltipped THEN "validate_normal_trigger tooltipped"
                                 ELSE "validate_normal_trigger")
         ELSE warn(st, LIMIT, "'limit' can only be used in if/else_if or lists")
    ELSE st

\* effect.rs:69-80
check_limit(st, a) ==
    IF field_block(a.block, LIMIT).some
    THEN IF is(a.caller, "if") \/ a.caller = ELSE_IF \/ is(a.caller, "else")
            \/ a.list_type # "None"
         THEN extern(st, LIMIT, IF st.tooltipped THEN "validate_normal_trigger tooltipped"
                                 ELSE "validate_normal_trigger")
         ELSE warn(st, LIMIT, "'limit' can only be used in if/else_if or lists")
    ELSE st

\* effect.rs:83-91, the closure run for one alternative_limit block
RECURSIVE alternative_limit_blocks(_, _, _)
alternative_limit_blocks(st, a, n) ==
    IF n = 0 THEN st
    ELSE alternative_limit_blocks(
            IF a.list_type # "None"
            THEN extern(st, ALTERNATIVE_LIMIT, "validate_normal_trigger")
            ELSE warn(st, ALTERNATIVE_LIMIT,
                      "'alternative_limit' can only be used in lists"),
            a, n - 1)

\* effect.rs:82-92
check_alternative_limit(st, a) ==
    alternative_limit_blocks(st, a, Len(field_validated_blocks(a.block, ALTERNATIVE_LIMIT)))

\* check_order_by that accepts the field in every list, as custom is accepted
check_order_by_any_list(st, a) ==
    IF field(a.block, ORDER_BY).some
    THEN IF a.list_type # "None"
         THEN extern(st, ORDER_BY, "ScriptValue::validate_bv")
         ELSE warn(st, ORDER_BY, "'order_by' can only be used in 'ordered_' lists")
    ELSE st

\* effect.rs:94-104
check_order_by(st, a) ==
    IF field(a.block, ORDER_BY).some
    THEN IF a.list_type = "Ordered"
         THEN extern(st, ORDER_BY, "ScriptValue::validate_bv")
         ELSE warn(st, ORDER_BY, "'order_by' can only be used in 'ordered_' lists")
    ELSE st

\* effect.rs:106-118
check_position(st, a) ==
    LET f == field_value(a.block, POSITION)
    IN  IF f.some
        THEN IF a.list_type = "Ordered"
             THEN IF ~parse_i32(f.e.tok).ok
                  THEN warn(st, f.e.tok, "expected an integer")
                  ELSE st
             ELSE warn(st, POSITION, "'position' can only be used in 'ordered_' lists")
        ELSE st

\* effect.rs:120-132
check_min(st, a) ==
    LET f == field_value(a.block, MIN)
    IN  IF f.some
        THEN IF a.list_type = "Ordered"
             THEN IF ~parse_i32(f.e.tok).ok
                  THEN warn(st, f.e.tok, "expected an integer")
                  ELSE st
             ELSE warn(st, MIN, "'min' can only be used in 'ordered_' lists")
        ELSE st

\* effect.rs:134-144
check_max(st, a) ==
    IF field(a.block, MAX).some
    THEN IF a.list_type = "Ordered"
         THEN extern(st, MAX, "ScriptValue::validate_bv")
         ELSE warn(st, MAX, "'max' can only be used in 'ordered_' lists")
    ELSE st

\* effect.rs:146-158
check_check_range_bounds(st, a) ==
    LET f == field_value(a.block, CHECK_RANGE_BOUNDS)
    IN  IF f.some
        THEN IF a.list_type = "Ordered"
             THEN IF ~(is(f.e.tok, "yes") \/ is(f.e.tok, "no"))
                  THEN warn(st, f.e.tok, "expected yes or no")
                  ELSE st
             ELSE warn(st, CHECK_RANGE_BOUNDS,
                       "'check_range_bounds' can only be used in 'ordered_' lists")
        ELSE st

\* effect.rs:160-170
check_weight(st, a) ==
    IF field_block(a.block, WEIGHT).some
    THEN IF a.list_type = "Random"
         THEN st
         ELSE warn(st, WEIGHT, "'weight' can only be used in 'random_' lists")
    ELSE st

\* effect.rs:172-180
inside_iterator(st, a) ==
    extern(st, a.caller, "validate_inside_iterator " \o ListTypeToString(a.list_type))

\* effect.rs:56-180, the meta-field checks in the order of the code
phase1(st, a) ==
    inside_iterator(
     check_weight(
      check_check_range_bounds(
       check_max(
        check_min(
         check_position(
          check_order_by(
           check_alternative_limit(
            check_limit(
             check_custom(st, a), a), a), a), a), a), a), a), a), a)

----------------------------------------------------------------------------
(* Phase 2 of validate_effect, effect.rs:182-336: what the loop body does with *)
(* one (key, bv) pair.  The result says whether validate_effect is called on   *)
(* the value (descend), and with which caller and ListType.                    *)

\* the state one step of validate_effect starts from
St(ctx, tooltipped) ==
    [sc |-> ctx, ev |-> <<>>, tooltipped |-> tooltipped, ok |-> TRUE,
     descend |-> FALSE, caller |-> <<>>, list_type |-> "None"]

\* effect.rs:233-239: the key is <kind>_<name> with a known iterator <name>
iterator_match(key) ==
    LET sp == split_once(key, "_")
    IN  /\ sp.some
        /\ (is(sp.l, "any") \/ is(sp.l, "ordered") \/ is(sp.l, "every")
            \/ is(sp.l, "random"))
        /\ scope_iterator(sp.r).some

\* effect.rs:263
macro_match(key) == key \in MacroNames

\* the cascade with the macro test moved before the registry and iterator tests
classify_macro_first(key) ==
    IF macro_match(key) THEN "macro"
    ELSE IF scope_effect(key).some THEN "registry"
    ELSE IF iterator_match(key) THEN "iterator"
    ELSE "chain"

\* effect.rs:183, 233-239, 263, 277: the if-cascade of the loop body, each branch
\* ending in `continue`
classify(key) ==
    IF scope_effect(key).some THEN "registry"
    ELSE IF iterator_match(key) THEN "iterator"
    ELSE IF macro_match(key) THEN "macro"
    ELSE "chain"

\* effect.rs:183-231
handle_registry(st, e) ==
    LET m == scope_effect(e.key)
        s1 == sc_expect(st, m.ins, e.key)
    IN  CASE m.effect = "Yes" ->
                LET s2 == expect_value(s1, e)
                IN  IF ~e.isBlock /\ ~is(e.tok, "yes")
                    THEN warn(s2, e.tok, "expected just 'key = yes'")
                    ELSE s2
          [] m.effect = "Bool" ->
                LET s2 == expect_value(s1, e)
                IN  IF ~e.isBlock THEN extern(s2, e.tok, "validate_target") ELSE s2
          [] m.effect = "Integer" ->
                LET s2 == expect_value(s1, e)
                IN  IF ~e.isBlock /\ ~parse_i32(e.tok).ok
                    THEN warn(s2, e.tok, "expected integer")
                    ELSE s2
          [] m.effect \in {"Value", "ScriptValue", "NonNegativeValue"} ->
                LET n == parse_i32(e.tok)
                    s2 == IF ~e.isBlock /\ n.ok /\ m.effect = "NonNegativeValue" /\ n.n < 0
                          THEN warn(s1, e.tok, "does not take negative numbers")
                          ELSE s1
                IN  extern(s2, e.key, "ScriptValue::validate_bv")
          [] m.effect = "Scope" ->
                LET s2 == expect_value(s1, e)
                IN  IF ~e.isBlock THEN extern(s2, e.tok, "validate_target") ELSE s2
          [] m.effect = "Item" ->
                LET s2 == expect_value(s1, e)
                IN  IF ~e.isBlock THEN extern(s2, e.tok, "verify_exists") ELSE s2
          [] OTHER -> s1

\* list_type_of with the arms for ordered and random exchanged
list_type_of_exchanged(it_type) ==
    CASE is(it_type, "every") -> "Every"
      [] is(it_type, "ordered") -> "Random"
      [] is(it_type, "random") -> "Ordered"

\* effect.rs:246-251
list_type_of(it_type) ==
    CASE is(it_type, "every") -> "Every"
      [] is(it_type, "ordered") -> "Ordered"
      [] is(it_type, "random") -> "Random"

\* handle_iterator with the `continue` of line 243 forgotten after the any_ error
handle_iterator_any_goes_on(st, e) ==
    LET sp == split_once(e.key, "_")
        m == scope_iterator(sp.r)
        s0 == IF is(sp.l, "any")
              THEN error(st, e.key, "cannot use 'any_' lists in an effect")
              ELSE st
        s1 == sc_expect(s0, m.ins, e.key)
        s2 == sc_open_scope(s1, m.out, e.key)
        s3 == expect_block(s2, e)
    IN  IF e.isBlock
        THEN [s3 EXCEPT !.descend = TRUE, !.caller = sp.r, !.list_type = "Every"]
        ELSE sc_close(s3)

\* effect.rs:239-258, up to the recursive call; the close() of line 257 follows
\* at once when there is no block to recurse into
handle_iterator(st, e) ==
    LET sp == split_once(e.key, "_")
        m == scope_iterator(sp.r)
    IN  IF is(sp.l, "any")
        THEN error(st, e.key, "cannot use 'any_' lists in an effect")
        ELSE LET s1 == sc_expect(st, m.ins, e.key)
                 s2 == sc_open_scope(s1, m.out, e.key)
                 s3 == expect_block(s2, e)
             IN  IF e.isBlock
                 THEN [s3 EXCEPT !.descend = TRUE, !.caller = sp.r,
                                 !.list_type = list_type_of(sp.l)]
                 ELSE sc_close(s3)

\* effect.rs:263-272
handle_macro(st, e) ==
    IF ~e.isBlock /\ ~is(e.tok, "yes")
    THEN warn(st, e.tok, "expected just effect = yes")
    ELSE st

\* chain_prefix that forgets the `!first` of line 285
chain_prefix_warns_first(st, part, first) ==
    LET pa == split_once(part, ":")
        m == scope_prefix(pa.l)
    IN  IF m.some
        THEN LET s1 == IF m.ins = ScopesNone
                       THEN warn(st, part, "makes no sense except as first part")
                       ELSE st
                 s2 == sc_expect(s1, m.ins, pa.l)
                 s3 == extern(s2, pa.r, "validate_prefix_reference")
             IN  sc_replace(s3, m.out, part)
        ELSE [sc_close(error(st, part, "unknown prefix")) EXCEPT !.ok = FALSE]

\* effect.rs:283-297: a `prefix:argument` part
chain_prefix(st, part, first) ==
    LET pa == split_once(part, ":")
        m == scope_prefix(pa.l)
    IN  IF m.some
        THEN LET s1 == IF m.ins = ScopesNone /\ ~first
                       THEN warn(st, part, "makes no sense except as first part")
                       ELSE st
                 s2 == sc_expect(s1, m.ins, pa.l)
                 s3 == extern(s2, pa.r, "validate_prefix_reference")
             IN  sc_replace(s3, m.out, part)
        ELSE [sc_close(error(st, part, "unknown prefix")) EXCEPT !.ok = FALSE]

\* effect.rs:298-315: root, prev, this
chain_self(st, part, first) ==
    LET s1 == IF ~first
              THEN warn(st, part, "makes no sense except as first part")
              ELSE st
    IN  IF is(part, "root") \/ is(part, "ROOT") THEN sc_replace_root(s1)
        ELSE IF is(part, "prev") \/ is(part, "PREV") THEN sc_replace_prev(s1, part)
        ELSE sc_replace_this(s1)

\* chain_scope with the replace() of line 322 forgotten: the subject is narrowed
\* by the segment's input instead of set to its output
chain_scope_no_replace(st, part, first) ==
    LET m == scope_to_scope(part)
    IN  IF m.some
        THEN LET s1 == IF m.ins = ScopesNone /\ ~first
                       THEN warn(st, part, "makes no sense except as first part")
                       ELSE st
             IN  sc_expect(s1, m.ins, part)
        ELSE [sc_close(error(st, part, "unknown token")) EXCEPT !.ok = FALSE]

\* chain_scope with the close() of line 327 forgotten on the error path
chain_scope_no_close(st, part, first) ==
    LET m == scope_to_scope(part)
    IN  IF m.some
        THEN LET s1 == IF m.ins = ScopesNone /\ ~first
                       THEN warn(st, part, "makes no sense except as first part")
                       ELSE st
                 s2 == sc_expect(s1, m.ins, part)
             IN  sc_replace(s2, m.out, part)
        ELSE [error(st, part, "unknown token") EXCEPT !.ok = FALSE]

\* chain_scope with the `continue 'outer` of line 328 forgotten: the chain goes on
chain_scope_no_continue(st, part, first) ==
    LET m == scope_to_scope(part)
    IN  IF m.some
        THEN LET s1 == IF m.ins = ScopesNone /\ ~first
                       THEN warn(st, part, "makes no sense except as first part")
                       ELSE st
                 s2 == sc_expect(s1, m.ins, part)
             IN  sc_replace(s2, m.out, part)
        ELSE sc_close(error(st, part, "unknown token"))

\* effect.rs:316-329: a scope transition, or an unknown token
chain_scope(st, part, first) ==
    LET m == scope_to_scope(part)
    IN  IF m.some
        THEN LET s1 == IF m.ins = ScopesNone /\ ~first
                       THEN warn(st, part, "makes no sense except as first part")
                       ELSE st
                 s2 == sc_expect(s1, m.ins, part)
             IN  sc_replace(s2, m.out, part)
        ELSE [sc_close(error(st, part, "unknown token")) EXCEPT !.ok = FALSE]

\* effect.rs:298-303
is_self_reference(part) ==
    \/ is(part, "root") \/ is(part, "prev") \/ is(part, "this")
    \/ is(part, "ROOT") \/ is(part, "PREV") \/ is(part, "THIS")

\* effect.rs:279-330: the parts from the i-th on; stops at the first unknown one
RECURSIVE chain_parts(_, _, _)
chain_parts(st, part_vec, i) ==
    IF i > Len(part_vec) THEN st
    ELSE LET part == part_vec[i]
             first == (i = 1)
             s1 == IF split_once(part, ":").some THEN chain_prefix(st, part, first)
                   ELSE IF is_self_reference(part) THEN chain_self(st, part, first)
                   ELSE chain_scope(st, part, first)
         IN  IF s1.ok THEN chain_parts(s1, part_vec, i + 1) ELSE s1

\* handle_chain with the open_builder() of line 278 forgotten: the segments are
\* evaluated in the frame of the block the key stands in
handle_chain_no_builder(st, e) ==
    LET s1 == chain_parts(st, split(e.key, "."), 1)
    IN  IF ~s1.ok THEN s1
        ELSE LET s2 == expect_block(s1, e)
             IN  IF e.isBlock
                 THEN [s2 EXCEPT !.descend = TRUE, !.caller = <<>>, !.list_type = "None"]
                 ELSE sc_close(s2)

\* effect.rs:277-335, up to the recursive call; the close() of line 335 follows
\* at once when there is no block to recurse into
handle_chain(st, e) ==
    LET s1 == chain_parts(sc_open_builder(st), split(e.key, "."), 1)
    IN  IF ~s1.ok THEN s1
        ELSE LET s2 == expect_block(s1, e)
             IN  IF e.isBlock
                 THEN [s2 EXCEPT !.descend = TRUE, !.caller = <<>>, !.list_type = "None"]
                 ELSE sc_close(s2)

----------------------------------------------------------------------------
(* The inputs *)

YES == <<"yes">>

\* the meta-fields, with values of the shape their accessor wants and of the other
MetaEntries ==
    { Value(CUSTOM, <<"hint">>),
      Nested(LIMIT),
      Nested(ALTERNATIVE_LIMIT),
      Value(ORDER_BY, <<"5">>),
      Value(POSITION, <<"5">>),
      Value(MIN, <<"5">>), Value(MAX, <<"5">>),
      Value(CHECK_RANGE_BOUNDS, YES),
      Nested(WEIGHT), Value(WEIGHT, <<"5">>) }

\* keys for the Phase 2 loop: registry effects, iterator lists, macros, chains
LoopEntries ==
    { Value(<<"add", "_", "gold">>, <<"5">>),
      Nested(<<"every", "_", "courtier">>), Value(<<"every", "_", "courtier">>, YES),
      Nested(<<"ordered", "_", "courtier">>),
      Nested(<<"random", "_", "held", "_", "title">>),
      Nested(<<"any", "_", "courtier">>),
      Value(<<"any", "_", "fix">>, YES),
      Nested(<<"liege", ".", "culture">>),
      Nested(<<"root", ".", "holder">>),
      Nested(<<"liege", ".", "title", ":", "k">>),
      Nested(<<"title", ":", "k", ".", "holder">>),
      Nested(<<"liege", ".", "dummy", "_", "male">>),
      Value(<<"flurb">>, YES),
      Nested(<<"liege", ".", "flurb">>),
      Nested(<<"bad", ":", "x">>) }

InputEntries == MetaEntries \cup LoopEntries

Min(a, b) == IF a < b THEN a ELSE b

\* the blocks of at most MaxKeys entries, and of at most n
Blocks(n) == UNION { [1..k -> InputEntries] : k \in 0..Min(MaxKeys, n) }

\* the callers of the outermost call: validate_normal_effect passes "", the
\* control-flow effects pass their own name
TopCallers == { <<>>, <<"if">>, ELSE_IF, <<"else">> }

\* the caller and ListType of the outermost call: a named caller with
\* ListType::None, or any ListType with no caller name
TopCalls ==
    { [caller |-> c, list_type |-> "None"] : c \in TopCallers }
    \cup { [caller |-> <<>>, list_type |-> lt] : lt \in ListType }

\* the ScopeContext the outermost call is given: inside one open scope
InitialContexts ==
    { [this |-> ScopesAll, root |-> {"LandedTitle"},
       frames |-> <<[this |-> {"Character"}, builder |-> FALSE]>>,
       underflow |-> FALSE] }

----------------------------------------------------------------------------
(* The state machine *)

NoCall ==
    [caller |-> <<>>, list_type |-> "None", block |-> <<>>, tooltipped |-> FALSE,
     via |-> "none", depth0 |-> 0]

NoContext == [this |-> {}, root |-> {}, frames |-> <<>>, underflow |-> FALSE]

NoStep ==
    [kind |-> "init", class |-> "", entry |-> NoEntry, pending |-> <<>>,
     before |-> NoContext, args |-> NoCall, via |-> "none", ev |-> <<>>]

Top == stack[Len(stack)]

\* validate_normal_effect, effect.rs:37-45, and every other caller of the public
\* validate_effect: the outermost call
Init ==
    /\ pc = "enter"
    /\ sc \in InitialContexts
    /\ sc_entry = sc
    /\ \E t \in TopCalls :
          call = [caller |-> t.caller, list_type |-> t.list_type, block |-> <<>>,
                  tooltipped |-> TRUE, via |-> "top", depth0 |-> Len(sc.frames)]
    /\ budget = MaxEntries
    /\ stack = <<>>
    /\ last = NoStep

\* effect.rs:47-55: validate_effect is entered; the block it was called on is read
Enter ==
    /\ pc = "enter"
    /\ \E b \in Blocks(budget) :
          /\ call' = [call EXCEPT !.block = b]
          /\ budget' = budget - Len(b)
    /\ pc' = "phase1"
    /\ UNCHANGED <<stack, sc, sc_entry, last>>

\* effect.rs:56-182: Phase 1 of the call just made, then vd.unknown_keys()
Phase1 ==
    /\ pc = "phase1"
    /\ LET r == phase1(St(sc, call.tooltipped), call)
           ks == unknown_keys(call.block)
       IN  /\ sc' = r.sc
           /\ stack' = Append(stack, [keys |-> ks, unclaimed |-> ks,
                                      tooltipped |-> r.tooltipped,
                                      via |-> call.via, depth0 |-> call.depth0,
                                      subject |-> r.sc.this])
           /\ last' = [NoStep EXCEPT !.kind = "phase1", !.before = sc,
                                     !.args = call, !.via = call.via, !.ev = r.ev]
    /\ pc' = "loop"
    /\ call' = NoCall
    /\ UNCHANGED <<sc_entry, budget>>

\* effect.rs:182: the loop takes the next pair the iterator yields
next_keys(keys) == Tail(keys)

\* one iteration of the loop of effect.rs:182-336 with the result r of its handler,
\* which may end in a call of validate_effect on the value
Iteration(class, r) ==
    LET e == Head(Top.keys)
        frame == [Top EXCEPT !.keys = next_keys(@), !.unclaimed = Tail(@),
                             !.subject = sc.this]
    IN  /\ sc' = r.sc
        /\ stack' = [stack EXCEPT ![Len(stack)] = frame]
        /\ last' = [NoStep EXCEPT !.kind = "key", !.class = class, !.entry = e,
                                  !.pending = Top.keys, !.before = sc,
                                  !.via = Top.via, !.ev = r.ev]
        /\ IF r.descend
           THEN /\ pc' = "enter"
                /\ call' = [caller |-> r.caller, list_type |-> r.list_type,
                            block |-> <<>>, tooltipped |-> r.tooltipped,
                            via |-> class, depth0 |-> Len(r.sc.frames)]
           ELSE /\ pc' = "loop"
                /\ call' = NoCall
        /\ UNCHANGED <<sc_entry, budget>>

InLoop == pc = "loop" /\ stack # <<>> /\ Top.keys # <<>>

\* effect.rs:183-231
KeyRegistry ==
    /\ InLoop
    /\ classify(Head(Top.keys).key) = "registry"
    /\ Iteration("registry", handle_registry(St(sc, Top.tooltipped), Head(Top.keys)))

\* effect.rs:233-261
KeyIterator ==
    /\ InLoop
    /\ classify(Head(Top.keys).key) = "iterator"
    /\ Iteration("iterator", handle_iterator(St(sc, Top.tooltipped), Head(Top.keys)))

\* effect.rs:263-272
KeyMacro ==
    /\ InLoop
    /\ classify(Head(Top.keys).key) = "macro"
    /\ Iteration("macro", handle_macro(St(sc, Top.tooltipped), Head(Top.keys)))

\* effect.rs:274-336
KeyChain ==
    /\ InLoop
    /\ classify(Head(Top.keys).key) = "chain"
    /\ Iteration("chain", handle_chain(St(sc, Top.tooltipped), Head(Top.keys)))

\* effect.rs:257 and 335: the close() that follows the recursive call
after_call(st, via) == IF via = "top" THEN st ELSE sc_close(st)

\* effect.rs:338-339: the loop is over; warn_remaining, return to the caller, which
\* closes the frame it opened for the call
Return ==
    /\ pc = "loop"
    /\ stack # <<>>
    /\ Top.keys = <<>>
    /\ LET r == after_call(warn_remaining(St(sc, Top.tooltipped), Top.unclaimed), Top.via)
       IN  /\ sc' = r.sc
           /\ last' = [NoStep EXCEPT !.kind = "return", !.before = sc,
                                     !.via = Top.via, !.ev = r.ev]
    /\ stack' = SubSeq(stack, 1, Len(stack) - 1)
    /\ pc' = IF Len(stack) = 1 THEN "done" ELSE "loop"
    /\ UNCHANGED <<call, sc_entry, budget>>

Next == Enter \/ Phase1 \/ KeyRegistry \/ KeyIterator \/ KeyMacro \/ KeyChain \/ Return

Spec == Init /\ [][Next]_vars

----------------------------------------------------------------------------
(* What the last step emitted *)

\* the positions of the events of `ev` that satisfy P
Where(ev, P(_)) == { i \in 1..Len(ev) : P(ev[i]) }

Count(ev, P(_)) == Cardinality(Where(ev, P))

IsOpen(e) == e.op \in {"open_scope", "open_builder"}

IsClose(e) == e.op = "close"

IsError(e) == e.op = "error"

\* the validate_effect activations: those in the loop and the one in Phase 1
Depth == Len(stack) + (IF pc \in {"enter", "phase1"} THEN 1 ELSE 0)

\* in every prefix of ev there are at least as many opens as closes
NeverCloseUnopened(ev) ==
    \A n \in 0..Len(ev) :
        Count(SubSeq(ev, 1, n), IsClose) <= Count(SubSeq(ev, 1, n), IsOpen)

----------------------------------------------------------------------------
(* C1: the frames of the ScopeContext are balanced.  Whatever the input, each   *)
(* key of the loop closes every frame it opened before the next key is taken,   *)
(* except the one frame of a body it recurses into, which is closed when that   *)
(* recursive call returns; no close() comes without an open before it; so the   *)
(* frame depth between two keys of a call, and when the call returns, is the    *)
(* depth at which the call was entered.                                         *)
C1_FramesBalanced ==
    /\ ~sc.underflow
    /\ \A i \in 1..Len(stack) : stack[i].depth0 = Len(sc_entry.frames) + i - 1
    /\ pc = "loop" => Len(sc.frames) = Top.depth0
    /\ pc \in {"enter", "phase1"} => Len(sc.frames) = Len(sc_entry.frames) + Len(stack)
    /\ pc = "done" => sc.frames = sc_entry.frames
    /\ last.kind = "key" =>
          /\ NeverCloseUnopened(last.ev)
          /\ Count(last.ev, IsOpen) - Count(last.ev, IsClose)
                = (IF pc \in {"enter", "phase1"} THEN 1 ELSE 0)
          /\ Count(last.ev, IsOpen) <= 1
    /\ last.kind = "return" =>
          /\ Count(last.ev, IsOpen) = 0
          /\ Count(last.ev, IsClose) = (IF last.via = "top" THEN 0 ELSE 1)
    /\ last.kind = "phase1" => Count(last.ev, IsOpen) = 0 /\ Count(last.ev, IsClose) = 0

\* a chain that meets an unknown token, inside a chain body inside an iterator body
C1_Witness ==
    /\ Len(stack) = 3
    /\ stack[2].via = "iterator"
    /\ stack[3].via = "chain"
    /\ last.kind = "key"
    /\ last.class = "chain"
    /\ Count(last.ev, IsError) = 1
    /\ Count(last.ev, IsClose) = 1

----------------------------------------------------------------------------
(* C2: every pair that unknown_keys() yields is handled by exactly one of the   *)
(* four classes, tried in the order registry, iterator list, macro, chain: the  *)
(* first that matches handles the key and no later one is tried; the loop takes *)
(* the pairs one by one in order, none skipped and none taken twice; and        *)
(* warn_remaining() after the loop reports none of them.                        *)

\* the key is <kind>_<name> with kind any/ordered/every/random and a known <name>
IteratorPattern(key) ==
    \E kind \in {"any", "ordered", "every", "random"} :
        /\ Len(key) >= 3
        /\ key[1] = kind
        /\ key[2] = "_"
        /\ scope_iterator(SubSeq(key, 3, Len(key))).some

\* what the events of a step show about the class that handled the key
HandledAs(ev) ==
    IF ev # <<>> /\ ev[1].op = "open_builder" THEN "chain"
    ELSE IF \E i \in 1..Len(ev) :
                ev[i].op = "open_scope" \/ ev[i].msg = "cannot use 'any_' lists in an effect"
    THEN "iterator"
    ELSE IF ev # <<>> /\ ev[1].op = "expect" THEN "registry"
    ELSE "macro"

C2_EveryKeyClassifiedOnce ==
    /\ last.kind = "key" =>
          LET k == last.entry.key
          IN  /\ last.pending # <<>>
              /\ last.entry = Head(last.pending)
              /\ Top.keys = Tail(last.pending)
              /\ Top.unclaimed = Top.keys
              /\ last.class \in {"registry", "iterator", "macro", "chain"}
              /\ HandledAs(last.ev) = last.class
              /\ last.class = "registry" <=> scope_effect(k).some
              /\ last.class = "iterator" <=> ~scope_effect(k).some /\ IteratorPattern(k)
              /\ last.class = "macro" <=>
                    ~scope_effect(k).some /\ ~IteratorPattern(k) /\ k \in MacroNames
    /\ last.kind = "return" => Count(last.ev, LAMBDA e : e.msg = "unknown field") = 0
    /\ last.kind = "phase1" => Top.keys = unknown_keys(last.args.block)

\* a key that is a registry effect and also the name of a scripted effect
C2_Witness ==
    /\ last.kind = "key"
    /\ last.class = "registry"
    /\ last.entry.key \in MacroNames
    /\ Len(last.pending) = 2

----------------------------------------------------------------------------
(* C3: a key whose chain meets a segment that is no known prefix, no self       *)
(* reference and no scope transition gets exactly one Error; validate_effect is *)
(* not called on its value; the ScopeContext and the tooltipped flag with which *)
(* the following keys are handled are those the key found, and the following    *)
(* keys are exactly the pairs that followed it.                                 *)

Abandoned ==
    /\ last.kind = "key"
    /\ Count(last.ev, LAMBDA e : e.op = "error"
                                  /\ e.msg \in {"unknown token", "unknown prefix"}) > 0

C3_UnknownTokenIsolated ==
    Abandoned =>
        /\ Count(last.ev, IsError) = 1
        /\ last.class = "chain"
        /\ pc = "loop"
        /\ call = NoCall
        /\ sc = last.before
        /\ Top.keys = Tail(last.pending)

\* `liege.flurb = { .. }` fails at its second segment and has a sibling after it
C3_Witness ==
    /\ Abandoned
    /\ last.entry = Nested(<<"liege", ".", "flurb">>)
    /\ Top.keys # <<>>
    /\ Len(stack) = 2

----------------------------------------------------------------------------
(* C4: when every segment of a dotted chain resolves, the body of the key is    *)
(* validated with the subject that results from taking the segments' declared   *)
(* outputs from left to right (the output of the last segment), with            *)
(* ListType::None and the caller "".  The order of the segments matters.        *)

\* the subject a resolved segment declares as its output, cur being the subject
\* before it and ctx the ScopeContext the chain started from
SegmentOutput(ctx, cur, part) ==
    LET pa == split_once(part, ":")
        scopes == ScopeFrames(ctx.frames)
    IN  IF pa.some THEN scope_prefix(pa.l).out
        ELSE IF part \in {<<"root">>, <<"ROOT">>} THEN ctx.root
        ELSE IF part \in {<<"prev">>, <<"PREV">>}
        THEN (IF scopes = <<>> THEN cur ELSE scopes[Len(scopes)].this)
        ELSE IF part \in {<<"this">>, <<"THIS">>} THEN cur
        ELSE scope_to_scope(part).out

RECURSIVE Composition(_, _, _)
Composition(ctx, cur, parts) ==
    IF parts = <<>> THEN cur
    ELSE Composition(ctx, SegmentOutput(ctx, cur, Head(parts)), Tail(parts))

ChainResolved == last.kind = "key" /\ last.class = "chain" /\ ~Abandoned

C4_ChainSubjectIsComposition ==
    ChainResolved /\ last.entry.isBlock =>
        /\ pc \in {"enter", "phase1"}
        /\ call.via = "chain"
        /\ call.list_type = "None"
        /\ call.caller = <<>>
        /\ sc.this = Composition(last.before, last.before.this,
                                 split(last.entry.key, "."))

\* liege.culture = { .. } is validated as a Culture; with the two segments
\* swapped the same context gives a Character
C4_Witness ==
    /\ pc = "enter"
    /\ ChainResolved
    /\ last.entry = Nested(<<"liege", ".", "culture">>)
    /\ sc.this = {"Culture"}
    /\ handle_chain(St(last.before, TRUE), Nested(<<"culture", ".", "liege">>)).sc.this
          = {"Character"}

----------------------------------------------------------------------------
(* C5: the meta-fields whose legality the ListType decides.                     *)

ListFields ==
    {CUSTOM, ALTERNATIVE_LIMIT, ORDER_BY, POSITION, MIN, MAX, CHECK_RANGE_BOUNDS, WEIGHT}

\* the ListTypes under which the field is legal
LegalIn(f) ==
    IF f \in {CUSTOM, ALTERNATIVE_LIMIT} THEN ListType \ {"None"}
    ELSE IF f = WEIGHT THEN {"Random"}
    ELSE {"Ordered"}

\* the misplaced-field warnings of the last step that name the field
Misplaced(f) ==
    Count(last.ev, LAMBDA e : e.op = "warn" /\ e.at = f
                              /\ e.msg \notin {"expected an integer", "expected yes or no"})

\* C5 as claimed: a block that contains such a field and is validated under a
\* ListType outside the field's legal set yields exactly one misplaced-field
\* warning naming the field, and under a legal ListType none
C5_OneWarningPerMisplacedField ==
    last.kind = "phase1" =>
        \A f \in ListFields :
            get_key(last.args.block, f) =>
                Misplaced(f) = (IF last.args.list_type \in LegalIn(f) THEN 0 ELSE 1)

\* how many of the field's occurrences its Phase 1 check looks at: the field
\* itself for custom, order_by and max, which take a value of any shape; the
\* scalar value of position, min and check_range_bounds and the block of weight,
\* if the field has one; every block-valued occurrence of alternative_limit
Checked(block, f) ==
    LET es == Entries(block, f)
        blocks == SelectSeq(es, LAMBDA e : e.isBlock)
        scalars == SelectSeq(es, LAMBDA e : ~e.isBlock)
    IN  IF f \in {CUSTOM, ORDER_BY, MAX} THEN (IF es = <<>> THEN 0 ELSE 1)
        ELSE IF f = ALTERNATIVE_LIMIT THEN Len(blocks)
        ELSE IF f = WEIGHT THEN (IF blocks = <<>> THEN 0 ELSE 1)
        ELSE (IF scalars = <<>> THEN 0 ELSE 1)

\* C5 as amended: under a ListType outside the field's legal set there is one
\* misplaced-field warning for custom, order_by and max when the field is
\* present, one for position, min and check_range_bounds when the field has a
\* scalar value, one for weight when it has a block value, and one for each
\* block-valued occurrence of alternative_limit; under a legal ListType none
C5_WarningPerCheckedField ==
    last.kind = "phase1" =>
        \A f \in ListFields :
            Misplaced(f) = (IF last.args.list_type \in LegalIn(f) THEN 0
                            ELSE Checked(last.args.block, f))

\* { custom = hint  weight = 5 } with ListType::None: one warning on custom, and
\* none on weight, whose value is no block
C5_Witness ==
    /\ last.kind = "phase1"
    /\ last.args.list_type = "None"
    /\ last.args.block = <<Value(CUSTOM, <<"hint">>), Value(WEIGHT, <<"5">>)>>
    /\ Misplaced(CUSTOM) = 1
    /\ Misplaced(WEIGHT) = 0

----------------------------------------------------------------------------
(* C6: any_ keys in an effect body.                                             *)

AnyPrefixed(key) == Len(key) >= 2 /\ key[1] = "any" /\ key[2] = "_"

TouchesScope(e) ==
    e.op \in {"expect", "open_scope", "open_builder", "replace", "replace_root",
              "replace_prev", "replace_this", "close"}

\* C6 as claimed: every any_-prefixed key produces exactly one Error, its value
\* is not passed to validate_effect, and no expect/open_scope is applied
C6_AnyPrefixedKeyIsOneError ==
    last.kind = "key" /\ AnyPrefixed(last.entry.key) =>
        /\ Count(last.ev, IsError) = 1
        /\ pc = "loop"
        /\ Count(last.ev, LAMBDA e : e.op \in {"expect", "open_scope"}) = 0

\* C6 as amended: every key any_<name> with a known iterator <name>, unless the
\* registry matches the key, produces exactly one Error; validate_effect is not
\* called on its value and the ScopeContext is not touched
C6_AnyListIsOneError ==
    /\ last.kind = "key"
    /\ AnyPrefixed(last.entry.key)
    /\ IteratorPattern(last.entry.key)
    /\ ~scope_effect(last.entry.key).some
    =>  /\ Count(last.ev, IsError) = 1
        /\ Len(last.ev) = 1
        /\ last.ev[1].at = last.entry.key
        /\ pc = "loop"
        /\ call = NoCall
        /\ Count(last.ev, TouchesScope) = 0
        /\ sc = last.before

\* any_courtier = { .. }
C6_Witness ==
    /\ last.kind = "key"
    /\ last.entry = Nested(<<"any", "_", "courtier">>)
    /\ Count(last.ev, IsError) = 1
    /\ pc = "loop"

----------------------------------------------------------------------------
(* C7: a limit block is legal exactly when the caller is if, else_if or else or *)
(* the ListType is not None.  When legal there is no placement warning and the  *)
(* block is handed to validate_normal_trigger; otherwise there is exactly one   *)
(* placement warning, on the limit key, and the block is not validated.         *)

LimitWarnings ==
    Count(last.ev, LAMBDA e : e.op = "warn" /\ e.at = LIMIT)

LimitValidations ==
    Count(last.ev, LAMBDA e : e.op = "call" /\ e.at = LIMIT)

C7_LimitPlacement ==
    last.kind = "phase1" /\ (\E i \in 1..Len(last.args.block) :
                                last.args.block[i] = Nested(LIMIT)) =>
        LET legal == \/ last.args.caller \in {<<"if">>, <<"else", "_", "if">>, <<"else">>}
                     \/ last.args.list_type # "None"
        IN  /\ LimitWarnings = (IF legal THEN 0 ELSE 1)
            /\ LimitValidations = (IF legal THEN 1 ELSE 0)

\* { limit = { .. } } validated with caller "else" and ListType::None
C7_Witness ==
    /\ last.kind = "phase1"
    /\ last.args.caller = <<"else">>
    /\ last.args.list_type = "None"
    /\ last.args.block = <<Nested(LIMIT)>>
    /\ LimitWarnings = 0
    /\ LimitValidations = 1

----------------------------------------------------------------------------
(* C8: the recursion of validate_effect into nested blocks has a depth ceiling: *)
(* however deep the input nests, there are never more activations than the     *)
(* ceiling, and what lies deeper is answered with a "nesting too deep"          *)
(* diagnostic.  The inputs nest up to MaxEntries + 1 blocks; the ceiling is any *)
(* depth they exceed.                                                           *)
C8_RecursionHasCeiling ==
    \E ceiling \in 1..MaxEntries :
        \/ Depth <= ceiling
        \/ Count(last.ev, LAMBDA e : e.msg = "nesting too deep") > 0

----------------------------------------------------------------------------
(* C9: for every_<name>, ordered_<name> and random_<name> with a known iterator *)
(* <name> the loop calls expect(inputScopes), then open_scope(outputScope),     *)
(* then validate_effect on the body, then close().  The body is validated with  *)
(* ListType Every, Ordered or Random, with caller <name> and with the subject   *)
(* outputScope, so that `position` in the body is accepted under ordered_ and   *)
(* reported as misplaced under every_ and random_.                              *)

ListKinds == [every |-> "Every", ordered |-> "Ordered", random |-> "Random"]

IteratorList ==
    /\ last.kind = "key"
    /\ ~scope_effect(last.entry.key).some
    /\ IteratorPattern(last.entry.key)
    /\ last.entry.key[1] \in DOMAIN ListKinds

C9_IteratorListProtocol ==
    /\ IteratorList =>
          LET k == last.entry.key
              name == SubSeq(k, 3, Len(k))
              it == scope_iterator(name)
              ops == SelectSeq(last.ev, TouchesScope)
          IN  /\ Len(ops) >= 2
              /\ ops[1] = Ev("expect", k, "", it.ins)
              /\ ops[2] = Ev("open_scope", k, "", it.out)
              /\ IF last.entry.isBlock
                 THEN /\ Len(ops) = 2
                      /\ pc \in {"enter", "phase1"}
                      /\ call.via = "iterator"
                      /\ call.caller = name
                      /\ call.list_type = ListKinds[k[1]]
                      /\ sc.this = it.out
                 ELSE /\ Len(ops) = 3
                      /\ ops[3].op = "close"
                      /\ pc = "loop"
    /\ last.kind = "return" /\ last.via = "iterator" =>
          /\ last.ev # <<>>
          /\ last.ev[Len(last.ev)].op = "close"
    /\ last.kind = "phase1" /\ last.args.via = "iterator" =>
          /\ last.args.list_type \in {"Every", "Ordered", "Random"}
          /\ sc = last.before
          /\ field_value(last.args.block, POSITION).some =>
                Misplaced(POSITION) = (IF last.args.list_type = "Ordered" THEN 0 ELSE 1)

\* ordered_courtier = { position = 5 }: the body is judged as an Ordered list
C9_Witness ==
    /\ last.kind = "phase1"
    /\ last.args.via = "iterator"
    /\ last.args.caller = <<"courtier">>
    /\ last.args.list_type = "Ordered"
    /\ last.args.block = <<Value(POSITION, <<"5">>)>>
    /\ Misplaced(POSITION) = 0
    /\ sc.this = {"Character"}

----------------------------------------------------------------------------
(* C10: the segments of a chain that are a `prefix:argument` or a scope         *)
(* transition.                                                                  *)

Parts == split(last.entry.key, ".")

\* the table entry of a segment of either kind
Declared(part) ==
    LET pa == split_once(part, ":")
    IN  IF pa.some THEN scope_prefix(pa.l)
        ELSE IF is_self_reference(part) THEN NoMatch
        ELSE scope_to_scope(part)

\* the token the segment's expect() is reported at
ExpectAt(part) ==
    LET pa == split_once(part, ":") IN IF pa.some THEN pa.l ELSE part

Resolves(part) == is_self_reference(part) \/ Declared(part).some

\* the segments of the two kinds that the chain of the last step came to
TableSegments ==
    { i \in 1..Len(Parts) :
        /\ Declared(Parts[i]).some
        /\ \A j \in 1..(i - 1) : Resolves(Parts[j]) }

FirstPartWarnings(i) ==
    Count(last.ev, LAMBDA e : e.op = "warn" /\ e.at = Parts[i]
                              /\ e.msg = "makes no sense except as first part")

Expects(i) ==
    Where(last.ev, LAMBDA e : e = Ev("expect", ExpectAt(Parts[i]), "",
                                      Declared(Parts[i]).ins))

Replaces(i) ==
    Where(last.ev, LAMBDA e : e = Ev("replace", Parts[i], "", Declared(Parts[i]).out))

\* C10 as claimed: a segment whose declared input is unconstrained and that is
\* not the first gets the warning and its expect/replace is not applied; every
\* other segment gets no warning and expect(input) followed by replace(output)
C10_WarningInsteadOfReplace ==
    last.kind = "key" /\ last.class = "chain" =>
        \A i \in TableSegments :
            IF Declared(Parts[i]).ins = ScopesNone /\ i # 1
            THEN /\ FirstPartWarnings(i) = 1
                 /\ Expects(i) = {}
                 /\ Replaces(i) = {}
            ELSE /\ FirstPartWarnings(i) = 0
                 /\ Cardinality(Expects(i)) = 1
                 /\ Cardinality(Replaces(i)) = 1

\* C10 as amended: a segment whose declared input is unconstrained and that is
\* not the first gets the warning, every other segment gets none; in both cases
\* expect(input) followed by replace(output) is applied
C10_WarningAndReplace ==
    last.kind = "key" /\ last.class = "chain" =>
        \A i \in TableSegments :
            /\ FirstPartWarnings(i)
                  = (IF Declared(Parts[i]).ins = ScopesNone /\ i # 1 THEN 1 ELSE 0)
            /\ Cardinality(Expects(i)) = 1
            /\ Cardinality(Replaces(i)) = 1
            /\ \A x \in Expects(i), r \in Replaces(i) : x < r
            /\ i = Len(Parts) /\ last.entry.isBlock => sc.this = Declared(Parts[i]).out

\* liege.title:k = { .. }: the prefix is warned about and still sets the subject
C10_Witness ==
    /\ last.kind = "key"
    /\ last.entry = Nested(<<"liege", ".", "title", ":", "k">>)
    /\ FirstPartWarnings(2) = 1
    /\ Cardinality(Replaces(2)) = 1
    /\ pc = "enter"
    /\ sc.this = {"LandedTitle"}

-----------------------------------------------------------------------------
(* C11: the subject at a block's frame level.                                   *)

\* the narrowings of `from` that an expect() of the last step can have made
Narrowings(from) ==
    { from \cap last.ev[i].scopes : i \in Where(last.ev, LAMBDA e : e.op = "expect") }

\* C11: when the loop is back in a block after a chain key (resolved, with its
\* body validated, or abandoned), a macro key or an any_ key, the current subject
\* is the one from before that key; a key changes the subject its siblings see
\* only by the expect() of a registry match or of an iterator's input, which
\* narrows it; so the subject at the block's level never widens from key to key,
\* and the call hands to its caller the subject it ended its loop with.
C11_SubjectRestored ==
    /\ last.kind = "key" /\ pc = "loop" =>
          /\ Top.subject = last.before.this
          /\ sc.this \subseteq Top.subject
          /\ last.class \in {"macro", "chain"} => sc.this = Top.subject
          /\ AnyPrefixed(last.entry.key) /\ last.class # "registry" =>
                sc.this = Top.subject
          /\ sc.this # Top.subject =>
                /\ last.class \in {"registry", "iterator"}
                /\ sc.this \in Narrowings(Top.subject)
    /\ last.kind = "key" /\ pc = "enter" =>
          LET saved == sc.frames[Len(sc.frames)].this
          IN  /\ Top.subject = last.before.this
              /\ last.class \in {"iterator", "chain"}
              /\ last.class = "chain" => saved = Top.subject
              /\ saved # Top.subject => saved \in Narrowings(Top.subject)
    /\ last.kind = "return" /\ last.via # "top" =>
          /\ sc.this \subseteq Top.subject
          /\ sc.this = last.before.frames[Len(last.before.frames)].this
          /\ last.via = "chain" => sc.this = Top.subject
    /\ last.kind = "return" /\ last.via = "top" => sc.this = last.before.this

\* add_gold = 5 narrows the subject to a Character; liege.culture = { .. } after it
\* has its body validated as a Culture, and the loop is back with the Character
C11_Witness ==
    /\ last.kind = "return"
    /\ last.via = "chain"
    /\ last.before.this = {"Culture"}
    /\ Top.subject = {"Character"}
    /\ Top.subject # ScopesAll
    /\ sc.this = {"Character"}

====
